---- MODULE Spec2Model ----
(***************************************************************************)
(* A model of dmgr.py: the DaemonManager supervisor.  The supervisor is    *)
(* one sequential program (its position is pc); the monitored daemon, the  *)
(* helper commands it spawns, the PID file and the senders of OS signals   *)
(* are the environment, whose steps interleave with the supervisor's.      *)
(* Time is counted in sleeps of half a second: it advances only where the  *)
(* code sleeps.                                                            *)
(***************************************************************************)
EXTENDS Integers, Sequences, FiniteSets, TLC

(***************************************************************************)
(* Bounds of the model.                                                    *)
(***************************************************************************)
MaxWait == 1
MaxDeliveries == 2

(***************************************************************************)
(* Python values.                                                          *)
(***************************************************************************)
\* None, where a PID or a process handle is expected
NoPid == 0
\* the content of a PID file that does not exist
NoFile == 0
\* None, where a command string is expected
NoCmd == "None"
\* a string-valued configuration key that is not in the config dict
NoKey == "<no key>"
\* a configuration string (signals, passthrough) that is not in the config dict
NoSpec == <<"<no key>">>
\* the supervisor's own PID: psutil.Process(None) is the calling process
SelfPid == 1
\* PIDs the monitored daemon may run under
PIDs == {100, 200}
\* time.sleep(0.5): sleeps per second of waittime
TicksPerSecond == 2

PROCESS_RUNNING == "PROCESS_RUNNING"
PROCESS_STOPPED == "PROCESS_STOPPED"

(***************************************************************************)
(* Signals: signal.valid_signals(), restricted to the ones the program     *)
(* names and two ordinary ones.                                            *)
(***************************************************************************)
Signals == {"SIGHUP", "SIGINT", "SIGKILL", "SIGUSR1", "SIGTERM", "SIGSTOP", "SIGTSTP"}

\* str(x.value) of each signal (Linux numbering)
SigValueStr ==
  [s \in Signals |->
     CASE s = "SIGHUP"  -> "1"
       [] s = "SIGINT"  -> "2"
       [] s = "SIGKILL" -> "9"
       [] s = "SIGUSR1" -> "10"
       [] s = "SIGTERM" -> "15"
       [] s = "SIGSTOP" -> "19"
       [] s = "SIGTSTP" -> "20"]

\* signals for which signal.signal() raises OSError(EINVAL)
Uncatchable == {"SIGKILL", "SIGSTOP"}

\* process_config, lines 206-213: both x.name and str(x.value) are keys
signal_lookup_keys == Signals \cup {SigValueStr[s] : s \in Signals}

signal_lookup(key) ==
  IF key \in Signals THEN key
  ELSE CHOOSE s \in Signals : SigValueStr[s] = key

\* the names bound at module level of dmgr.py (imports, classes, functions):
\* a bare name that is neither one of these nor a local raises NameError
ModuleGlobals ==
  {"datetime", "logging", "psutil", "queue", "signal", "subprocess", "sys",
   "time", "Parameter", "Options", "Enum", "ExpectedOutcome", "DaemonManager",
   "usage", "main"}

\* the local names of process_config
ProcessConfigLocals == {"self", "x", "y", "sig_in", "sig_out", "sig", "cmd"}

NameDefined(n) == n \in ModuleGlobals \cup ProcessConfigLocals

(***************************************************************************)
(* Strings that are split are sequences of tokens; ";" and "=" are the     *)
(* separator characters, every other token is a run of other characters.   *)
(***************************************************************************)
RECURSIVE Split(_, _)
\* str.split(sep): always at least one field, empty fields kept
Split(s, sep) ==
  IF \A i \in 1..Len(s) : s[i] # sep THEN <<s>>
  ELSE LET k == CHOOSE i \in 1..Len(s) :
                  s[i] = sep /\ \A j \in 1..(i-1) : s[j] # sep
       IN <<SubSeq(s, 1, k-1)>> \o Split(SubSeq(s, k+1, Len(s)), sep)

\* the string a field without separators stands for
FieldStr(f) == IF f = <<>> THEN "" ELSE f[1]

\* process names are sequences of characters
LowerChar(c) ==
  CASE c = "W" -> "w"
    [] c = "K" -> "k"
    [] c = "O" -> "o"
    [] OTHER -> c

\* str.lower()
Lower(s) == [i \in DOMAIN s |-> LowerChar(s[i])]

\* dict with one key set
DictSet(d, k, v) == [x \in (DOMAIN d) \cup {k} |-> IF x = k THEN v ELSE d[x]]

EmptyDict == [x \in {} |-> NoCmd]

(***************************************************************************)
(* process_config (lines 205-276) as a function of the configuration.      *)
(* A configuration state cs carries the three structures being built and   *)
(* the outcome so far: "run" while the method is executing, "ok" when it   *)
(* returned, "exit" for sys.exit(1), or the name of the exception that     *)
(* left it.  lastlog is the last message it logged, a pair of the level    *)
(* and the text, NoLog when it logged nothing.                             *)
(***************************************************************************)
NoLog == <<"", "">>

ConfigStart ==
  [outcome |-> "run", lastlog |-> NoLog,
   exit_signals |-> {"SIGINT", "SIGTERM"},
   signal_commands |-> EmptyDict,
   passthroughmap |-> [x \in {} |-> "SIGHUP"],
   handlers |-> {},
   warnings |-> {}]

\* logger.critical(msg)
Critical(cs, msg) == [cs EXCEPT !.lastlog = <<"critical", msg>>]
\* logger.critical(msg); sys.exit(1)
Fatal(cs, msg) == [Critical(cs, msg) EXCEPT !.outcome = "exit"]
\* an exception nobody catches
Raise(cs, exc) == [cs EXCEPT !.outcome = exc]
\* logger.warn(msg)
Warn(cs, msg) ==
  [cs EXCEPT !.warnings = @ \cup {msg}, !.lastlog = <<"warning", msg>>]

\* lines 230-232, reached with sig_in a key of signal_lookup or not
PassthroughSigint(cs, sig_in) ==
  IF sig_in \notin signal_lookup_keys THEN Raise(cs, "KeyError")
  ELSE IF signal_lookup(sig_in) = "SIGINT"
       THEN Warn([cs EXCEPT !.exit_signals = @ \ {"SIGINT"}], "passthrough SIGINT")
       ELSE cs

\* lines 219-232: one entry x of the passthrough string
PassthroughEntry(cs, x) ==
  LET y0 == Split(x, "=") IN
  IF Len(y0) \notin {1, 2} THEN Fatal(cs, "invalid passthrough syntax")
  ELSE
    LET y == IF Len(y0) = 1 THEN y0 \o <<y0[1]>> ELSE y0
        sig_in == FieldStr(y[1])
        sig_out == FieldStr(y[2])
    IN IF sig_in \in signal_lookup_keys
       THEN \* line 226 goes on to evaluate the bare name signal_lookup
            IF ~NameDefined("signal_lookup") THEN Raise(cs, "NameError")
            ELSE IF sig_out \in signal_lookup_keys
                 THEN PassthroughSigint(
                        [cs EXCEPT !.passthroughmap =
                           DictSet(@, signal_lookup(sig_in), signal_lookup(sig_out))],
                        sig_in)
                 ELSE PassthroughSigint(Critical(cs, "unknown passthrough signal"),
                                        sig_in)
       ELSE \* line 229 logs and falls through to line 230
            PassthroughSigint(Critical(cs, "unknown passthrough signal"), sig_in)

RECURSIVE PassthroughLoop(_, _)
PassthroughLoop(cs, xs) ==
  IF xs = <<>> \/ cs.outcome # "run" THEN cs
  ELSE PassthroughLoop(PassthroughEntry(cs, Head(xs)), Tail(xs))

\* lines 234-239
StopcmdDefaults(cs, cfg) ==
  IF cfg.stopcmd = NoKey \/ cs.outcome # "run" THEN cs
  ELSE LET free == {"SIGTERM", "SIGINT"} \ DOMAIN cs.passthroughmap IN
       [cs EXCEPT !.signal_commands =
          [s \in (DOMAIN @) \cup free |-> IF s \in free THEN cfg.stopcmd ELSE @[s]],
                  !.lastlog = IF free = {"SIGTERM", "SIGINT"} THEN @
                              ELSE <<"info", "passthrough with stopcmd">>]

\* line 251: the signals the code refuses to hook
ImpossibleToHook == {"SIGKILL", "SIGTSTP"}

\* lines 244-266: one entry x of the signals string
SignalsEntry(cs, x, cfg) ==
  LET y == Split(x, "=") IN
  IF Len(y) # 2 THEN Fatal(cs, "invalid signal configuration")
  ELSE
    LET sig == FieldStr(y[1])
        cmd == FieldStr(y[2])
    IN IF sig \notin signal_lookup_keys THEN Fatal(cs, "unknown signal")
       ELSE LET s == signal_lookup(sig) IN
         IF s \in ImpossibleToHook THEN Fatal(cs, "impossible to hook")
         ELSE IF s = "SIGTERM" /\ ~NameDefined("d") THEN Raise(cs, "NameError")
         ELSE IF s = "SIGTERM" /\ cfg.stopcmd # NoKey
              THEN Warn(cs, "stopcmd wins")
         ELSE IF s = "SIGINT" /\ ~NameDefined("exit_signals")
              THEN Raise(cs, "NameError")
         ELSE LET cs2 == IF s = "SIGINT"
                         THEN Warn([cs EXCEPT !.exit_signals = @ \ {"SIGINT"}],
                                   "command for SIGINT")
                         ELSE cs
              IN IF s \in DOMAIN cs2.passthroughmap
                 THEN Warn(cs2, "passthrough wins")
                 ELSE [cs2 EXCEPT !.signal_commands = DictSet(@, s, cmd)]

RECURSIVE SignalsLoop(_, _, _)
SignalsLoop(cs, xs, cfg) ==
  IF xs = <<>> \/ cs.outcome # "run" THEN cs
  ELSE SignalsLoop(SignalsEntry(cs, Head(xs), cfg), Tail(xs), cfg)

\* lines 268-276: signal.signal for every key of both maps; it raises
\* OSError for a signal that cannot be caught
Register(cs) ==
  LET keys == (DOMAIN cs.signal_commands) \cup (DOMAIN cs.passthroughmap) IN
  IF cs.outcome # "run" THEN cs
  ELSE IF keys \cap Uncatchable # {}
  THEN Raise([cs EXCEPT !.handlers = keys \ Uncatchable], "OSError")
  ELSE [cs EXCEPT !.handlers = keys,
                  !.lastlog = IF keys = {} THEN @ ELSE <<"info", "registered">>]

\* lines 205-276
process_config(cfg) ==
  LET a == IF cfg.passthrough = NoSpec THEN ConfigStart
           ELSE PassthroughLoop(ConfigStart, Split(cfg.passthrough, ";"))
      b == StopcmdDefaults(a, cfg)
      c == IF cfg.signals = NoSpec \/ b.outcome # "run" THEN b
           ELSE Register(SignalsLoop(b, Split(cfg.signals, ";"), cfg))
  IN IF c.outcome = "run" THEN [c EXCEPT !.outcome = "ok"] ELSE c

(***************************************************************************)
(* The configurations and the worlds the program is started in.            *)
(***************************************************************************)
ProcessNames == {<<"W", "K">>}

\* p.name() of the process with a given PID
ProcName(pid) == IF pid = 100 THEN <<"W", "k">> ELSE <<"o", "K">>

StopcmdOptions == {NoKey, "stop"}

SignalsOptions ==
  {NoSpec,
   <<"SIGHUP", "=", "reload">>,
   <<"SIGTERM", "=", "custom">>,
   <<"15", "=", "custom">>,
   <<"TERM", "=", "custom">>,
   <<"SIGINT", "=", "custom">>,
   <<"SIGKILL", "=", "x">>,
   <<"9", "=", "x">>,
   <<"SIGSTOP", "=", "x">>,
   <<"19", "=", "x">>,
   <<"SIGTSTP", "=", "x">>,
   <<"SIGHUP", "=", "reload", ";", "SIGSTOP", "=", "x">>,
   <<"SIGHUP">>,
   <<"SIGHUP", "=", "a", "=", "b">>}

PassthroughOptions ==
  {NoSpec,
   <<"SIGUSR1">>,
   <<"SIGUSR1", "=", "SIGHUP">>,
   <<"10", "=", "1">>,
   <<"SIGINT">>,
   <<"BOGUS">>,
   <<"SIGUSR1", "=", "BOGUS">>,
   <<"SIGUSR1", "=", "SIGHUP", "=", "x">>}

Configs ==
  [processname : ProcessNames,
   startcmd : {"start"},
   stopcmd : StopcmdOptions,
   waitstart : 1..MaxWait,
   waitstop : 1..MaxWait,
   signals : SignalsOptions,
   passthrough : PassthroughOptions]

\* the signals the environment sends to the supervisor
Deliverable == {"SIGINT", "SIGTERM", "SIGHUP"}

VARIABLES
  config,           \* the config dict
  processname,      \* self.processname
  signal_queue,     \* self.signal_queue
  signal_commands,  \* self.signal_commands
  exit_signals,     \* self.exit_signals
  passthroughmap,   \* self.passthroughmap
  handlers,         \* the signals signal_handler is installed for
  warnings,         \* the warnings process_config logged
  pc,               \* the supervisor's position
  phase,            \* the phases the supervisor went through
  exit,             \* how the process ended, code -1 while it runs
  lastlog,          \* the last message given to the logger
  pidfile,          \* the content of the PID file, NoFile when there is none
  procstate,        \* the process table, by PID
  rcw,              \* the locals of the run_cmd_and_wait call in progress
  status,           \* the value the last run_cmd_and_wait returned
  helper,           \* the process of the last command spawned
  hsig,             \* the signals sent to that process
  main_pid,         \* run's local main_pid
  main_proc,        \* run's local main_proc
  stopcmd,          \* run's local stopcmd
  cmdlog,           \* the commands spawned so far
  sent,             \* the signals sent to the monitored process
  delivered         \* the number of signals delivered to the supervisor

vars ==
  <<config, processname, signal_queue, signal_commands, exit_signals,
    passthroughmap, handlers, warnings, pc, phase, exit, pidfile, procstate,
    rcw, status, helper, hsig, main_pid, main_proc, stopcmd, cmdlog, sent,
    delivered, lastlog>>

cfgvars == <<config, processname>>
mapvars == <<signal_commands, exit_signals, passthroughmap, handlers, warnings>>
runvars == <<main_pid, main_proc, stopcmd>>
helpervars == <<helper, hsig>>
worldvars == <<pidfile, procstate>>

NoRcw ==
  [cmd |-> NoCmd, waittime |-> 0, expected_outcome |-> "", caller |-> "",
   old_pid |-> NoPid, new_pid |-> NoPid, pid |-> NoPid, elapsed |-> 0,
   spawned |-> FALSE, polls |-> 0]

NoExit == [code |-> -1, reason |-> ""]

\* __init__, lines 21-29, in a world with or without a PID file
Init ==
  /\ config \in Configs
  /\ processname = Lower(config.processname)
  /\ signal_queue = <<>>
  /\ signal_commands = EmptyDict
  /\ exit_signals = {"SIGINT", "SIGTERM"}
  /\ passthroughmap = ConfigStart.passthroughmap
  /\ handlers = {}
  /\ warnings = {}
  /\ pc = "check_if_already_running"
  /\ phase = <<>>
  /\ exit = NoExit
  /\ lastlog = NoLog
  /\ pidfile \in {NoFile} \cup PIDs
  /\ procstate \in [PIDs -> {"unborn", "running"}]
  /\ rcw = NoRcw
  /\ status = FALSE
  /\ helper = "none"
  /\ hsig = {}
  /\ main_pid = NoPid
  /\ main_proc = NoPid
  /\ stopcmd = NoCmd
  /\ cmdlog = <<>>
  /\ sent = <<>>
  /\ delivered = 0

(***************************************************************************)
(* The primitives.                                                         *)
(***************************************************************************)
\* file_exists(self.pidfile), lines 46-48
file_exists(pf) == pf # NoFile

\* get_process, lines 36-42: a handle is the PID; psutil.Process(None) is the
\* calling process
get_process(ps, pid) ==
  IF pid = NoPid THEN SelfPid
  ELSE IF ps[pid] = "running" THEN pid
  ELSE NoPid

\* is_proc_running, lines 65-72, for a handle of a monitored process (a
\* daemon is no child of the supervisor and is reaped when it dies)
is_proc_running(ps, proc) == proc = SelfPid \/ ps[proc] = "running"

\* is_proc_running, lines 65-72, for cmd_proc, the handle of the command:
\* an exited child is a zombie until it is polled
cmd_is_running(h) == h = "running"

\* sys.exit(code), the end of main, or an exception nobody catches
Exit(code, reason) ==
  /\ pc' = "exited"
  /\ exit' = [code |-> code, reason |-> reason]

\* logger.info, logger.critical
Log(level, msg) == lastlog' = <<level, msg>>

(***************************************************************************)
(* check_if_already_running, lines 193-202, as a function of the world:    *)
(* whether it exits, and the PID file it leaves.                           *)
(***************************************************************************)
\* the guard with p.name() compared as it is, not lower-cased
check_if_already_running_CaseSensitive(pf, ps, name) ==
  IF file_exists(pf)
  THEN LET p == get_process(ps, pf) IN
       IF p # NoPid /\ ProcName(p) = name
       THEN [exits |-> TRUE, pidfile |-> pf]
       ELSE [exits |-> FALSE, pidfile |-> NoFile]
  ELSE [exits |-> FALSE, pidfile |-> pf]

check_if_already_running(pf, ps, name) ==
  IF file_exists(pf)
  THEN LET p == get_process(ps, pf) IN
       IF p # NoPid /\ Lower(ProcName(p)) = name
       THEN [exits |-> TRUE, pidfile |-> pf]
       ELSE [exits |-> FALSE, pidfile |-> NoFile]
  ELSE [exits |-> FALSE, pidfile |-> pf]

CheckIfAlreadyRunning ==
  /\ pc = "check_if_already_running"
  /\ LET r == check_if_already_running(pidfile, procstate, processname) IN
       /\ pidfile' = r.pidfile
       /\ IF r.exits
          THEN /\ Log("info", "Process in pidfile is already running -- exiting")
               /\ Exit(1, "already running")
          ELSE /\ IF file_exists(pidfile)
                  THEN Log("info", "Removed old pidfile")
                  ELSE UNCHANGED lastlog
               /\ pc' = "process_config"
               /\ exit' = exit
  /\ UNCHANGED <<cfgvars, mapvars, runvars, helpervars, signal_queue, phase,
                 procstate, rcw, status, cmdlog, sent, delivered>>

\* process_config, lines 205-276, then run is entered
ProcessConfig ==
  /\ pc = "process_config"
  /\ LET c == process_config(config) IN
       /\ signal_commands' = c.signal_commands
       /\ exit_signals' = c.exit_signals
       /\ passthroughmap' = c.passthroughmap
       /\ handlers' = c.handlers
       /\ warnings' = c.warnings
       /\ lastlog' = IF c.lastlog = NoLog THEN lastlog ELSE c.lastlog
       /\ IF c.outcome = "ok"
          THEN pc' = "run" /\ exit' = exit
          ELSE Exit(1, "config " \o c.outcome)
  /\ UNCHANGED <<cfgvars, runvars, helpervars, worldvars, signal_queue, phase,
                 rcw, status, cmdlog, sent, delivered>>

(***************************************************************************)
(* run_cmd_and_wait, lines 85-173.                                         *)
(***************************************************************************)
\* a call of run_cmd_and_wait by run: "start", "signal" or "stop"
Call(cmd, waittime, expected_outcome, caller) ==
  /\ rcw' = [NoRcw EXCEPT !.cmd = cmd,
                          !.waittime = waittime * TicksPerSecond,
                          !.expected_outcome = expected_outcome,
                          !.caller = caller]
  /\ pc' = "rcw_enter"

Return(value) ==
  /\ status' = value
  /\ pc' = "rcw_return"

\* lines 86-105: the snapshot of the PID file and the spawn of the command
RcwEnter ==
  /\ pc = "rcw_enter"
  /\ LET old_pid == IF file_exists(pidfile) THEN pidfile ELSE NoPid IN
       IF rcw.cmd # NoCmd
       THEN \E found \in BOOLEAN :
              IF found
              THEN /\ rcw' = [rcw EXCEPT !.old_pid = old_pid, !.spawned = TRUE]
                   /\ helper' = "running"
                   /\ hsig' = {}
                   /\ cmdlog' = Append(cmdlog, rcw.cmd)
                   /\ pc' = "rcw_detect"
                   /\ UNCHANGED status
              ELSE \* FileNotFoundError: start_subprocess returns None
                   /\ rcw' = [rcw EXCEPT !.old_pid = old_pid]
                   /\ Return(FALSE)
                   /\ UNCHANGED <<helpervars, cmdlog>>
       ELSE /\ rcw' = [rcw EXCEPT !.old_pid = old_pid]
            /\ pc' = "rcw_detect"
            /\ UNCHANGED <<helpervars, cmdlog, status>>
  /\ UNCHANGED <<cfgvars, mapvars, runvars, worldvars, signal_queue, phase,
                 exit, sent, delivered, lastlog>>

\* lines 113-117: the new PID read from the PID file, if any yet
DetectNewPid(r, pf, polled) ==
  IF r.new_pid = NoPid /\ file_exists(pf) /\ (pf # r.old_pid \/ polled)
  THEN pf
  ELSE r.new_pid

\* lines 108-136: one turn of the detection loop, or its end at the deadline
RcwDetect ==
  /\ pc = "rcw_detect"
  /\ IF rcw.elapsed >= rcw.waittime
     THEN /\ Return(FALSE)
          /\ UNCHANGED <<rcw, helper, exit>>
     ELSE IF rcw.expected_outcome = PROCESS_RUNNING
     THEN IF ~rcw.spawned
          THEN \* cmd_subproc is None: None.poll()
               /\ Exit(1, "AttributeError")
               /\ UNCHANGED <<rcw, helper, status>>
          ELSE LET polled == helper \in {"zombie", "reaped"}
                   new_pid == DetectNewPid(rcw, pidfile, polled)
                   found == new_pid # NoPid /\ get_process(procstate, new_pid) # NoPid
               IN /\ helper' = IF helper = "zombie" THEN "reaped" ELSE helper
                  /\ rcw' = [rcw EXCEPT !.new_pid = new_pid,
                                        !.polls = @ + 1,
                                        !.elapsed = IF found THEN @ ELSE @ + 1]
                  /\ pc' = IF found THEN "rcw_stabilize" ELSE "rcw_detect"
                  /\ UNCHANGED <<status, exit>>
     ELSE LET gone == get_process(procstate, rcw.old_pid) = NoPid IN
          /\ rcw' = [rcw EXCEPT !.polls = @ + 1,
                                !.elapsed = IF gone THEN @ ELSE @ + 1]
          /\ pc' = IF gone THEN "rcw_stabilize" ELSE "rcw_detect"
          /\ UNCHANGED <<helper, status, exit>>
  /\ UNCHANGED <<cfgvars, mapvars, runvars, worldvars, signal_queue, phase,
                 hsig, cmdlog, sent, delivered, lastlog>>

\* line 146: the process the stabilization loop looks at
StabilizedPid(r) == r.old_pid

\* lines 138-155: one turn of the stabilization loop, or its end
RcwStabilize ==
  /\ pc = "rcw_stabilize"
  /\ IF rcw.elapsed >= rcw.waittime
     THEN /\ pc' = "rcw_cleanup"
          /\ UNCHANGED <<rcw, status, exit>>
     ELSE IF rcw.expected_outcome = PROCESS_RUNNING
     THEN IF rcw.pid = NoPid /\ ~file_exists(pidfile)
          THEN \* load_text of a file that is not there
               /\ Exit(1, "FileNotFoundError")
               /\ UNCHANGED <<rcw, status>>
          ELSE LET pid == IF rcw.pid = NoPid THEN pidfile ELSE rcw.pid IN
               IF get_process(procstate, StabilizedPid(rcw)) = NoPid
               THEN /\ rcw' = [rcw EXCEPT !.pid = pid]
                    /\ Return(FALSE)
                    /\ UNCHANGED exit
               ELSE /\ rcw' = [rcw EXCEPT !.pid = pid, !.elapsed = @ + 1]
                    /\ UNCHANGED <<pc, status, exit>>
     ELSE IF ~rcw.spawned
          THEN \* cmd_proc is None: None.is_running()
               /\ Exit(1, "AttributeError")
               /\ UNCHANGED <<rcw, status>>
          ELSE IF ~cmd_is_running(helper)
               THEN /\ pc' = "rcw_cleanup"
                    /\ UNCHANGED <<rcw, status, exit>>
               ELSE /\ rcw' = [rcw EXCEPT !.elapsed = @ + 1]
                    /\ UNCHANGED <<pc, status, exit>>
  /\ UNCHANGED <<cfgvars, mapvars, runvars, worldvars, helpervars,
                 signal_queue, phase, cmdlog, sent, delivered, lastlog>>

\* lines 158-165, for a command that is running at line 159: terminate(),
\* wait(timeout=3), which raises TimeoutExpired unless the command exits in
\* time, and kill() if it is running after the wait
Cleanup(hs, exits) ==
  LET afterwait == IF exits THEN "reaped" ELSE "running"
      signalled == hs \cup {"SIGTERM"}
  IN [raised |-> ~exits,
      helper |-> afterwait,
      hsig |-> IF exits /\ cmd_is_running(afterwait)
               THEN signalled \cup {"SIGKILL"}
               ELSE signalled]

RcwCleanup ==
  /\ pc = "rcw_cleanup"
  /\ IF rcw.spawned /\ cmd_is_running(helper)
     THEN \E exits \in BOOLEAN :
            LET c == Cleanup(hsig, exits) IN
            /\ helper' = c.helper
            /\ hsig' = c.hsig
            /\ Log("info", "Command process is still running, sending SIGTERM")
            /\ IF c.raised
               THEN Exit(1, "TimeoutExpired")
               ELSE pc' = "rcw_final" /\ exit' = exit
     ELSE /\ pc' = "rcw_final"
          /\ UNCHANGED <<helpervars, exit, lastlog>>
  /\ UNCHANGED <<cfgvars, mapvars, runvars, worldvars, signal_queue, phase,
                 rcw, status, cmdlog, sent, delivered>>

\* lines 167-173
RcwFinal ==
  /\ pc = "rcw_final"
  /\ Return(IF rcw.expected_outcome = PROCESS_STOPPED
            THEN get_process(procstate, rcw.old_pid) = NoPid
            ELSE TRUE)
  /\ UNCHANGED <<cfgvars, mapvars, runvars, worldvars, helpervars,
                 signal_queue, phase, exit, rcw, cmdlog, sent, delivered,
                 lastlog>>

(***************************************************************************)
(* run, lines 278-376.                                                     *)
(***************************************************************************)
\* lines 279-285
RunStart ==
  /\ pc = "run"
  /\ phase' = Append(phase, "STARTING")
  /\ Log("info", "Starting process")
  /\ Call(config.startcmd, config.waitstart, PROCESS_RUNNING, "start")
  /\ UNCHANGED <<cfgvars, mapvars, runvars, worldvars, helpervars,
                 signal_queue, exit, status, cmdlog, sent, delivered>>

\* lines 287-299
AfterStart ==
  /\ pc = "rcw_return"
  /\ rcw.caller = "start"
  /\ IF status
     THEN /\ pc' = "loop_get"
          /\ phase' = Append(phase, "MONITORING")
          /\ main_pid' = NoPid
          /\ main_proc' = NoPid
          /\ stopcmd' = NoCmd
          /\ exit' = exit
          /\ Log("info", "Process is running")
     ELSE /\ Log("critical", "Failed to start process -- exiting")
          /\ Exit(1, "failed start")
          /\ UNCHANGED <<phase, runvars>>
  /\ rcw' = NoRcw
  /\ UNCHANGED <<cfgvars, mapvars, worldvars, helpervars, signal_queue,
                 status, cmdlog, sent, delivered>>

\* lines 350-366: the exit procedure, with the stop command cmd
StartExit(cmd) ==
  /\ stopcmd' = cmd
  /\ Log("info", "Start exit procedure")
  /\ phase' = Append(phase, "STOPPING")
  /\ Call(cmd, config.waitstop, PROCESS_STOPPED, "stop")

\* a loop that treats an exit signal like any other signal
Dispatch_NoExit(effective_signal, excmd) ==
  IF excmd # NoCmd THEN "run_cmd_and_wait"
  ELSE "watchdog"

\* lines 316-332: what run does with a dequeued signal once its effective
\* signal and its command are resolved
Dispatch(effective_signal, excmd) ==
  IF effective_signal \in exit_signals THEN "StartExit"
  ELSE IF excmd # NoCmd THEN "run_cmd_and_wait"
  ELSE "watchdog"

\* lines 303-336: the queue read of one turn of the loop and what follows it
\* up to the call of run_cmd_and_wait
LoopGet ==
  /\ pc = "loop_get"
  /\ IF signal_queue = <<>>
     THEN \* queue.Empty after the timeout of one second
          /\ pc' = "watchdog"
          /\ UNCHANGED <<signal_queue, rcw, phase, exit, runvars, sent, lastlog>>
     ELSE LET sig == Head(signal_queue)
              passed == sig \in DOMAIN passthroughmap
              effective_signal == IF passed THEN passthroughmap[sig] ELSE sig
              excmd == IF passed THEN NoCmd ELSE signal_commands[sig]
          IN /\ signal_queue' = Tail(signal_queue)
             /\ IF passed /\ main_proc = NoPid
                THEN \* None.send_signal()
                     /\ Log("info", "Passthrough signal")
                     /\ Exit(1, "AttributeError")
                     /\ UNCHANGED <<rcw, phase, runvars, sent>>
                ELSE IF passed /\ ~is_proc_running(procstate, main_proc)
                THEN \* send_signal to a process that is gone
                     /\ Log("info", "Passthrough signal")
                     /\ Exit(1, "NoSuchProcess")
                     /\ UNCHANGED <<rcw, phase, runvars, sent>>
                ELSE IF ~passed /\ sig \notin DOMAIN signal_commands
                THEN /\ Exit(1, "KeyError")
                     /\ UNCHANGED <<rcw, phase, runvars, sent, lastlog>>
                ELSE /\ sent' = IF passed
                                THEN Append(sent, <<main_proc, effective_signal>>)
                                ELSE sent
                     /\ exit' = exit
                     /\ LET d == Dispatch(effective_signal, excmd) IN
                        IF d = "StartExit"
                        THEN /\ StartExit(excmd)
                             /\ UNCHANGED <<main_pid, main_proc>>
                        ELSE IF d = "run_cmd_and_wait"
                        THEN /\ Call(excmd, config.waitstart, PROCESS_RUNNING, "signal")
                             /\ Log("info", "Run command")
                             /\ UNCHANGED <<phase, runvars>>
                        ELSE /\ main_pid' = NoPid
                             /\ pc' = "watchdog"
                             /\ Log("info", IF passed THEN "Passthrough signal"
                                                       ELSE "Run command")
                             /\ UNCHANGED <<rcw, phase, main_proc, stopcmd>>
  /\ UNCHANGED <<cfgvars, mapvars, worldvars, helpervars, status, cmdlog,
                 delivered>>

\* a failed signal command that is not noticed
CommandFailed_Ignored(st) == FALSE

\* lines 327-329: whether a signal command that returned status is fatal
CommandFailed(st) == st = FALSE

\* lines 327-332
AfterSignalCmd ==
  /\ pc = "rcw_return"
  /\ rcw.caller = "signal"
  /\ IF CommandFailed(status)
     THEN /\ Log("critical", "Command failed -- exiting")
          /\ Exit(1, "command failed")
          /\ UNCHANGED main_pid
     ELSE /\ main_pid' = NoPid
          /\ pc' = "watchdog"
          /\ UNCHANGED <<exit, lastlog>>
  /\ rcw' = NoRcw
  /\ UNCHANGED <<cfgvars, mapvars, worldvars, helpervars, signal_queue, phase,
                 main_proc, stopcmd, status, cmdlog, sent, delivered>>

\* a watchdog that never finds the main process gone
ExitedUnexpectedly_Never(ps, proc) == FALSE

\* line 346: whether the watchdog finds the main process gone
ExitedUnexpectedly(ps, proc) == ~is_proc_running(ps, proc)

\* lines 338-348
Watchdog ==
  /\ pc = "watchdog"
  /\ IF main_pid = NoPid /\ ~file_exists(pidfile)
     THEN \* load_text of a file that is not there
          /\ Exit(1, "FileNotFoundError")
          /\ UNCHANGED <<main_pid, main_proc, lastlog>>
     ELSE LET pid == IF main_pid = NoPid THEN pidfile ELSE main_pid
              proc0 == IF main_pid = NoPid THEN NoPid ELSE main_proc
              proc == IF proc0 = NoPid THEN get_process(procstate, pid) ELSE proc0
          IN /\ main_pid' = pid
             /\ main_proc' = proc
             /\ IF proc = NoPid
                THEN \* None.is_running()
                     Exit(1, "AttributeError") /\ UNCHANGED lastlog
                ELSE IF ExitedUnexpectedly(procstate, proc)
                THEN /\ Log("critical", "Process exited unexpectedly")
                     /\ Exit(1, "exited unexpectedly")
                ELSE pc' = "loop_get" /\ UNCHANGED <<exit, lastlog>>
  /\ UNCHANGED <<cfgvars, mapvars, worldvars, helpervars, signal_queue, phase,
                 rcw, status, stopcmd, cmdlog, sent, delivered>>

\* a failed stop that falls through to the end of run
StopExitCode_Zero(st) == 0

\* lines 368-376 and the end of main: the exit code after the stop
StopExitCode(st) == IF st = FALSE THEN 1 ELSE 0

\* a stop failure answered with a forced kill
StopFailureSignal_Kill == "SIGKILL"

\* line 374: the signal sent to the main process when the stop has failed
StopFailureSignal == "SIGTERM"

\* lines 368-376
AfterStop ==
  /\ pc = "rcw_return"
  /\ rcw.caller = "stop"
  /\ IF StopExitCode(status) # 0
     THEN /\ Log("critical", "Failed to end the process -- exiting")
          /\ IF main_proc # NoPid /\ ~is_proc_running(procstate, main_proc)
             THEN \* send_signal to a process that is gone
                  /\ Exit(1, "NoSuchProcess")
                  /\ UNCHANGED <<sent, phase>>
             ELSE /\ sent' = IF main_proc # NoPid
                             THEN Append(sent, <<main_proc, StopFailureSignal>>)
                             ELSE sent
                  /\ phase' = Append(phase, "FAILED")
                  /\ Exit(StopExitCode(status), "failed stop")
     ELSE /\ Log("info", "Done.")
          /\ Exit(StopExitCode(status), "done")
          /\ phase' = Append(phase, "DONE")
          /\ UNCHANGED sent
  /\ rcw' = NoRcw
  /\ UNCHANGED <<cfgvars, mapvars, runvars, worldvars, helpervars,
                 signal_queue, status, cmdlog, delivered>>

(***************************************************************************)
(* The environment.                                                        *)
(***************************************************************************)
\* the positions inside the try of lines 300-350
InTry ==
  \/ pc \in {"loop_get", "watchdog"}
  \/ /\ pc \in {"rcw_enter", "rcw_detect", "rcw_stabilize", "rcw_cleanup",
                "rcw_final", "rcw_return"}
     /\ rcw.caller = "signal"

\* the exit status of a process ended by the default action of a signal
KilledBy(sig) == IF sig = "SIGTERM" THEN 143 ELSE 129

\* a queue that hands out the newest item first
put_nowait_Front(q, item) == <<item>> \o q

\* line 182: signal_queue.put_nowait on the FIFO queue.Queue of line 27
put_nowait(q, item) == Append(q, item)

\* A signal is sent to the supervisor.  signal_handler (lines 179-182) queues
\* it if it is installed for the signal; otherwise SIGINT raises
\* KeyboardInterrupt where the program is (lines 350-356 catch it inside the
\* try) and any other signal ends the process.
DeliverSignal(sig) ==
  /\ pc # "exited"
  /\ delivered < MaxDeliveries
  /\ delivered' = delivered + 1
  /\ IF sig \in handlers
     THEN /\ signal_queue' = put_nowait(signal_queue, sig)
          /\ Log("info", "Signal detected")
          /\ UNCHANGED <<pc, exit, rcw, phase, stopcmd>>
     ELSE IF sig = "SIGINT"
     THEN IF InTry
          THEN /\ StartExit(IF config.stopcmd # NoKey THEN config.stopcmd ELSE NoCmd)
               /\ UNCHANGED <<signal_queue, exit>>
          ELSE /\ Exit(1, "KeyboardInterrupt")
               /\ UNCHANGED <<signal_queue, rcw, phase, stopcmd, lastlog>>
     ELSE /\ Exit(KilledBy(sig), "killed by signal")
          /\ UNCHANGED <<signal_queue, rcw, phase, stopcmd, lastlog>>
  /\ UNCHANGED <<cfgvars, mapvars, worldvars, helpervars, main_pid, main_proc,
                 status, cmdlog, sent>>

\* the command that is running starts the daemon, which writes its PID file
DaemonStarts(q) ==
  /\ pc # "exited"
  /\ helper = "running"
  /\ procstate[q] = "unborn"
  /\ procstate' = [procstate EXCEPT ![q] = "running"]
  /\ pidfile' = q
  /\ UNCHANGED <<cfgvars, mapvars, runvars, helpervars, signal_queue, pc,
                 phase, exit, rcw, status, cmdlog, sent, delivered, lastlog>>

\* a daemon ends, stopped by a command or on its own
ProcDies(p) ==
  /\ pc # "exited"
  /\ procstate[p] = "running"
  /\ procstate' = [procstate EXCEPT ![p] = "dead"]
  /\ UNCHANGED <<cfgvars, mapvars, runvars, helpervars, signal_queue, pc,
                 phase, exit, rcw, status, cmdlog, sent, lastlog,
                 delivered, pidfile>>

\* the PID file of a daemon that is gone is removed
PidfileRemoved ==
  /\ pc # "exited"
  /\ pidfile # NoFile
  /\ procstate[pidfile] # "running"
  /\ pidfile' = NoFile
  /\ UNCHANGED <<cfgvars, mapvars, runvars, helpervars, signal_queue, pc,
                 phase, exit, rcw, status, cmdlog, sent, lastlog,
                 delivered, procstate>>

\* the command that is running ends; it is a zombie until it is polled
HelperExits ==
  /\ pc # "exited"
  /\ helper = "running"
  /\ helper' = "zombie"
  /\ UNCHANGED <<cfgvars, mapvars, runvars, worldvars, signal_queue, pc,
                 phase, exit, rcw, status, cmdlog, sent, lastlog,
                 delivered, hsig>>

Next ==
  \/ CheckIfAlreadyRunning
  \/ ProcessConfig
  \/ RunStart
  \/ RcwEnter
  \/ RcwDetect
  \/ RcwStabilize
  \/ RcwCleanup
  \/ RcwFinal
  \/ AfterStart
  \/ LoopGet
  \/ AfterSignalCmd
  \/ Watchdog
  \/ AfterStop
  \/ \E sig \in Deliverable : DeliverSignal(sig)
  \/ \E q \in PIDs : DaemonStarts(q)
  \/ \E p \in PIDs : ProcDies(p)
  \/ PidfileRemoved
  \/ HelperExits

Spec == Init /\ [][Next]_vars

\* the steps of the program itself: main runs them one after another
Supervisor ==
  \/ CheckIfAlreadyRunning
  \/ ProcessConfig
  \/ RunStart
  \/ RcwEnter
  \/ RcwDetect
  \/ RcwStabilize
  \/ RcwCleanup
  \/ RcwFinal
  \/ AfterStart
  \/ LoopGet
  \/ AfterSignalCmd
  \/ Watchdog
  \/ AfterStop

\* the program keeps running: every sleep and every queue read with a timeout
\* ends; nothing is assumed of the daemon, the command or the senders of
\* signals
FairSpec == Spec /\ WF_vars(Supervisor)

TypeOK ==
  /\ pc \in {"check_if_already_running", "process_config", "run", "rcw_enter",
             "rcw_detect", "rcw_stabilize", "rcw_cleanup", "rcw_final",
             "rcw_return", "loop_get", "watchdog", "exited"}
  /\ (pc = "exited") <=> (exit.code # -1)
  /\ pidfile \in {NoFile} \cup PIDs
  /\ helper \in {"none", "running", "zombie", "reaped"}
  /\ hsig \subseteq {"SIGTERM", "SIGKILL"}
  /\ main_pid \in {NoPid} \cup PIDs
  /\ main_proc \in {NoPid} \cup PIDs

(***************************************************************************)
(* The properties.                                                         *)
(***************************************************************************)
\* the entries of a configuration string
Entries(spec) == IF spec = NoSpec THEN <<>> ELSE Split(spec, ";")

\* the signal the first field of an entry denotes, "" if it denotes none
EntrySignal(x) ==
  LET f == FieldStr(Split(x, "=")[1]) IN
  IF f \in signal_lookup_keys THEN signal_lookup(f) ELSE ""

\* the commands the signals string gives for signal s
EntryCommands(spec, s) ==
  {FieldStr(Split(Entries(spec)[i], "=")[2]) :
     i \in {j \in DOMAIN Entries(spec) :
              /\ Len(Split(Entries(spec)[j], "=")) = 2
              /\ EntrySignal(Entries(spec)[j]) = s}}

\* the process ended inside process_config
ConfigFailed == pc = "exited" /\ exit.reason \in
  {"config exit", "config NameError", "config KeyError", "config OSError"}

\* process_config has run
ConfigDone ==
  \/ pc \notin {"check_if_already_running", "process_config", "exited"}
  \/ pc = "exited" /\ exit.reason \notin
       {"already running", "KeyboardInterrupt", "killed by signal"}
  \/ pc = "exited" /\ phase # <<>>

\* a step of the supervisor, not of the environment, that leaves position p
StepFrom(p) == pc = p /\ pc' # p /\ delivered' = delivered

\* C1: whenever run_cmd_and_wait returns from a call that spawned a command,
\* the command's process has exited, or it was sent SIGTERM and, being still
\* alive, SIGKILL: no return leaves a live helper that was never signalled.
C1_HelperCleanedUpOnReturn ==
  (pc = "rcw_return" /\ rcw.spawned) =>
     (~cmd_is_running(helper) \/ {"SIGTERM", "SIGKILL"} \subseteq hsig)

\* a passthrough string all of whose entries are SIG or SIG1=SIG2 with known
\* signals
ValidPassthrough(spec) ==
  /\ spec # NoSpec
  /\ \A i \in DOMAIN Entries(spec) :
       LET y == Split(Entries(spec)[i], "=") IN
       /\ Len(y) \in {1, 2}
       /\ \A k \in DOMAIN y : FieldStr(y[k]) \in signal_lookup_keys

\* C2: with valid passthrough entries SIG1=SIG2 (or a bare SIG1) and nothing
\* else configured, configuration completes and maps every SIG1 to its SIG2,
\* and no command is ever spawned for a delivery of SIG1.
C2_PassthroughConfigured ==
  (ValidPassthrough(config.passthrough) /\ config.signals = NoSpec /\ ConfigDone) =>
     /\ ~ConfigFailed
     /\ \A i \in DOMAIN Entries(config.passthrough) :
          LET y == Split(Entries(config.passthrough)[i], "=")
              sig_in == signal_lookup(FieldStr(y[1]))
              sig_out == signal_lookup(FieldStr(y[Len(y)]))
          IN /\ sig_in \in DOMAIN passthroughmap
             /\ passthroughmap[sig_in] = sig_out
             /\ sig_in \notin DOMAIN signal_commands

\* C3: a dequeued signal that has a command, is not passed through and is
\* not an exit signal makes run call run_cmd_and_wait with the command of
\* its signals entry, PROCESS_RUNNING and waitstart; when the call returns
\* True the supervisor goes on to the watchdog in MONITORING, when it
\* returns False the supervisor exits non-zero and spawns nothing more.
C3_SignalCommand ==
  [][ /\ ( /\ pc = "loop_get"
           /\ signal_queue # <<>>
           /\ signal_queue' = Tail(signal_queue)
           /\ Head(signal_queue) \in DOMAIN signal_commands
           /\ Head(signal_queue) \notin DOMAIN passthroughmap
           /\ Head(signal_queue) \notin exit_signals )
         => /\ pc' = "rcw_enter"
            /\ rcw'.cmd \in EntryCommands(config.signals, Head(signal_queue))
            /\ rcw'.expected_outcome = PROCESS_RUNNING
            /\ rcw'.waittime = config.waitstart * TicksPerSecond
            /\ rcw'.caller = "signal"
            /\ phase' = phase
      /\ ( /\ pc = "rcw_return"
           /\ rcw.caller = "signal"
           /\ rcw' = NoRcw )
         => IF status
            THEN /\ pc' = "watchdog"
                 /\ exit' = exit
                 /\ phase' = phase
                 /\ cmdlog' = cmdlog
            ELSE /\ pc' = "exited"
                 /\ exit'.code # 0
                 /\ cmdlog' = cmdlog
    ]_vars

\* C3 witness: the command of SIGHUP has run and succeeded, and the
\* supervisor is at the watchdog, still monitoring
C3_Witness ==
  /\ pc = "watchdog"
  /\ cmdlog = <<"start", "reload">>
  /\ status = TRUE
  /\ main_pid = NoPid
  /\ phase = <<"STARTING", "MONITORING">>

\* C4: when a signal command has replaced the daemon and exited (the PID file
\* went from old PID p to a new PID q that run_cmd_and_wait detected, p is
\* gone and q is alive), run_cmd_and_wait returns True.
C4_RestartSucceeds ==
  ( /\ pc = "rcw_return"
    /\ rcw.caller = "signal"
    /\ rcw.old_pid # NoPid
    /\ rcw.new_pid # NoPid
    /\ rcw.new_pid # rcw.old_pid
    /\ ~cmd_is_running(helper)
    /\ pidfile = rcw.new_pid
    /\ procstate[rcw.old_pid] = "dead"
    /\ procstate[rcw.new_pid] = "running" )
  => status = TRUE

\* the PID of the process the watchdog is about to look at
MonitoredPid == IF main_pid = NoPid THEN pidfile ELSE main_pid

\* C5: with no signal queued the loop goes from the queue read straight to
\* the watchdog, and a watchdog check made when the monitored process is not
\* alive ends the supervisor with a non-zero exit code, no command spawned.
C5_UnexpectedDeath ==
  [][ /\ (StepFrom("loop_get") /\ signal_queue = <<>>)
         => /\ pc' = "watchdog"
            /\ cmdlog' = cmdlog
            /\ phase' = phase
      /\ ( /\ StepFrom("watchdog")
           /\ MonitoredPid # NoPid
           /\ procstate[MonitoredPid] # "running" )
         => /\ pc' = "exited"
            /\ exit'.code # 0
            /\ cmdlog' = cmdlog
            /\ phase' = phase
    ]_vars

\* C5 witness: the daemon died with no signal ever delivered and the
\* watchdog ended the supervisor
C5_Witness ==
  /\ pc = "exited"
  /\ exit = [code |-> 1, reason |-> "exited unexpectedly"]
  /\ delivered = 0
  /\ cmdlog = <<"start">>

\* the fatal conditions
FatalReasons ==
  {"already running", "config exit", "config NameError", "config KeyError",
   "config OSError", "failed start", "command failed", "exited unexpectedly",
   "failed stop"}

\* C6: the process ends with exit code 0 only after STARTING, MONITORING and
\* STOPPING with the last run_cmd_and_wait having returned True; every fatal
\* condition ends it with a non-zero exit code.
C6_ExitStatus ==
  pc = "exited" =>
    /\ exit.code = 0 =>
         /\ phase = <<"STARTING", "MONITORING", "STOPPING", "DONE">>
         /\ status = TRUE
    /\ exit.reason \in FatalReasons => exit.code # 0
    /\ exit.reason = "done" => exit.code = 0

\* C6 witness: a clean stop
C6_Witness ==
  /\ pc = "exited"
  /\ exit.code = 0
  /\ cmdlog = <<"start", "stop">>

\* C7: a run_cmd_and_wait call expecting PROCESS_STOPPED whose target was
\* absent at the first check of the detection loop (it left the loop after
\* one poll) returns, and returns True.
C7_StoppedTargetAbsent ==
  ( /\ rcw.caller = "stop"
    /\ rcw.old_pid # NoPid
    /\ rcw.polls = 1
    /\ pc \in {"rcw_stabilize", "rcw_cleanup", "rcw_final", "rcw_return", "exited"} )
  => /\ exit.reason \notin {"AttributeError", "TimeoutExpired"}
     /\ pc = "rcw_return" => status = TRUE

\* the signals string has an entry for SIGKILL or SIGSTOP
HasUncatchableEntry(spec) ==
  \E i \in DOMAIN Entries(spec) :
    /\ Len(Split(Entries(spec)[i], "=")) = 2
    /\ EntrySignal(Entries(spec)[i]) \in Uncatchable

\* C8: a signals entry for SIGKILL or SIGSTOP, by name or by number, makes
\* configuration end the process with a critical message and sys.exit(1).
C8_UncatchableRejected ==
  (HasUncatchableEntry(config.signals) /\ config.passthrough = NoSpec /\ ConfigDone) =>
     /\ pc = "exited"
     /\ exit = [code |-> 1, reason |-> "config exit"]
     /\ lastlog[1] = "critical"

\* C9: with stopcmd configured and a signals entry for SIGTERM, configuration
\* completes with a warning, SIGTERM is mapped to stopcmd, and the command of
\* the entry is never spawned.
C9_StopcmdWins ==
  ( /\ config.stopcmd # NoKey
    /\ config.passthrough = NoSpec
    /\ EntryCommands(config.signals, "SIGTERM") # {}
    /\ ConfigDone )
  => /\ ~ConfigFailed
     /\ "SIGTERM" \in DOMAIN signal_commands
     /\ signal_commands["SIGTERM"] = config.stopcmd
     /\ "stopcmd wins" \in warnings
     /\ \A i \in DOMAIN cmdlog : cmdlog[i] \notin EntryCommands(config.signals, "SIGTERM")

\* C10: the guard ends the process exactly when the PID file names a live
\* process whose lower-cased name is the lower-cased configured name; in
\* every other case it leaves no PID file and goes on, and the guard run
\* again in the world it left changes nothing and does not exit.
C10_StartupGuard ==
  [][ StepFrom("check_if_already_running") =>
        LET live == pidfile # NoFile /\ procstate[pidfile] = "running"
            refuse == live /\ Lower(ProcName(pidfile)) = Lower(config.processname)
            again == check_if_already_running(pidfile', procstate', processname')
        IN /\ refuse <=> (pc' = "exited")
           /\ refuse => (exit'.code # 0 /\ pidfile' = pidfile)
           /\ ~refuse => /\ pc' = "process_config"
                         /\ exit' = exit
                         /\ pidfile' = NoFile
                         /\ again = [exits |-> FALSE, pidfile |-> pidfile']
    ]_vars

\* C10 witness: the guard has removed a stale PID file and gone on
C10_Witness ==
  /\ pc = "process_config"
  /\ lastlog = <<"info", "Removed old pidfile">>
  /\ pidfile = NoFile

\* C11: when the run_cmd_and_wait call of STOPPING returns False the
\* supervisor makes one send of SIGTERM to the main process handle if it has
\* one (a handle whose process is gone receives nothing), sends no SIGKILL,
\* spawns no further command and exits non-zero; when the call returns True
\* it sends nothing and exits with code 0.
C11_StopFailure ==
  [][ (pc = "rcw_return" /\ rcw.caller = "stop" /\ rcw' = NoRcw) =>
        /\ pc' = "exited"
        /\ cmdlog' = cmdlog
        /\ hsig' = hsig
        /\ IF status
           THEN sent' = sent /\ exit'.code = 0
           ELSE /\ exit'.code # 0
                /\ sent' = IF main_proc # NoPid /\ is_proc_running(procstate, main_proc)
                           THEN Append(sent, <<main_proc, "SIGTERM">>)
                           ELSE sent
    ]_vars

\* C11 witness: the stop has failed and the supervisor has ended after
\* sending SIGTERM to the main process
C11_Witness ==
  /\ pc = "exited"
  /\ exit = [code |-> 1, reason |-> "failed stop"]
  /\ status = FALSE
  /\ main_proc # NoPid
  /\ sent = <<(<<main_proc, "SIGTERM">>)>>

\* the stop command the configuration gives, NoCmd if it gives none
ConfiguredStopcmd == IF config.stopcmd # NoKey THEN config.stopcmd ELSE NoCmd

ControlledExits ==
  {"already running", "config exit", "failed start", "command failed",
   "exited unexpectedly", "failed stop"}

\* C13: every exit on a fatal condition has a critical message as the last
\* thing logged before it, and every critical message (an unknown passthrough
\* signal among them) is followed by such an exit, not by further execution.
C13_FatalExitsLogged ==
  /\ (pc = "exited" /\ exit.reason \in ControlledExits) => lastlog[1] = "critical"
  /\ lastlog[1] = "critical" => (pc = "exited" /\ exit.reason \in ControlledExits)

\* C14: the cleanup of a command that is still alive sends it SIGTERM and,
\* when it is still alive after the wait of 3 seconds, SIGKILL, and
\* run_cmd_and_wait goes on to return its result.
C14_CleanupEscalation ==
  [][ (StepFrom("rcw_cleanup") /\ rcw.spawned /\ cmd_is_running(helper)) =>
        /\ "SIGTERM" \in hsig'
        /\ cmd_is_running(helper') => "SIGKILL" \in hsig'
        /\ pc' = "rcw_final"
    ]_vars

\* C15: once configuration has completed, every signal that is a key of
\* signal_commands or of passthroughmap has signal_handler installed, also
\* when the keys come from stopcmd alone and no signals option is given, and
\* the supervisor is never ended by the default action of such a signal.
C15_HandlersInstalled ==
  (ConfigDone /\ ~ConfigFailed) =>
     /\ (DOMAIN signal_commands) \cup (DOMAIN passthroughmap) \subseteq handlers
     /\ ( /\ exit.reason \in {"killed by signal", "KeyboardInterrupt"}
          /\ phase # <<>> )
        => (DOMAIN signal_commands) \cup (DOMAIN passthroughmap) = {}

\* the positions inside run_cmd_and_wait
InRcw == pc \in {"rcw_enter", "rcw_detect", "rcw_stabilize", "rcw_cleanup",
                 "rcw_final"}

\* C16: a watchdog check made when the monitored PID names no live process
\* takes the 'process exited unexpectedly' exit, and no step of a
\* run_cmd_and_wait call that was given a command ends the supervisor with an
\* error raised on a missing process or a missing handle.
C16_AbsencesHandled ==
  [][ /\ ( /\ StepFrom("watchdog")
           /\ MonitoredPid # NoPid
           /\ procstate[MonitoredPid] # "running" )
         => (pc' = "exited" /\ exit'.reason = "exited unexpectedly")
      /\ (InRcw /\ rcw.cmd # NoCmd /\ delivered' = delivered)
         => exit'.reason \notin {"AttributeError", "NoSuchProcess"}
    ]_vars

\* C17: no read of the PID file (the snapshot, the detection loop, the
\* stabilization loop, the watchdog) ends the supervisor because the file is
\* not there at that moment.
C17_PidfileReadsTolerant ==
  pc = "exited" => exit.reason # "FileNotFoundError"

\* C18: a delivery to signal_handler only appends the signal to the queue;
\* only the queue read of the loop takes a signal off it, and it takes the
\* oldest; a call of run_cmd_and_wait starts only when none is in progress
\* (a KeyboardInterrupt abandons the call it interrupts); and at every
\* watchdog check and every queue read the call made for the previous signal
\* has returned.
C18_SignalSequencing ==
  [][ /\ (delivered' # delivered /\ signal_queue' # signal_queue)
         => /\ \E sig \in handlers : signal_queue' = Append(signal_queue, sig)
            /\ UNCHANGED <<pc, rcw, status, phase, exit, cmdlog, sent,
                           main_pid, main_proc, helper>>
      /\ (delivered' = delivered /\ signal_queue' # signal_queue)
         => /\ pc = "loop_get"
            /\ signal_queue # <<>>
            /\ signal_queue' = Tail(signal_queue)
            /\ pc' = "rcw_enter" =>
                  rcw'.cmd = signal_commands[Head(signal_queue)]
      /\ (pc' = "rcw_enter" /\ rcw' # rcw)
         => \/ rcw = NoRcw
            \/ delivered' # delivered /\ "SIGINT" \notin handlers
      /\ pc \in {"loop_get", "watchdog"} => rcw = NoRcw
      /\ pc' \in {"loop_get", "watchdog"} => rcw' = NoRcw
    ]_vars

\* C18 witness: SIGHUP and then SIGTERM were delivered; the command of SIGHUP
\* is running and SIGTERM, delivered after it, waits in the queue
C18_Witness ==
  /\ delivered = 2
  /\ pc = "rcw_detect"
  /\ rcw.caller = "signal"
  /\ rcw.cmd = "reload"
  /\ helper = "running"
  /\ signal_queue = <<"SIGTERM">>
  /\ cmdlog = <<"start", "reload">>

\* C19: a run_cmd_and_wait call with no command spawns nothing and never
\* raises on the missing command handle: the stop begun by an interrupt with
\* no stopcmd configured ends only by the return of the call (then exit 0 or
\* the stop-failure exit), or by a further signal.
C19_AbsentCommandObserved ==
  (rcw.caller = "stop" /\ rcw.cmd = NoCmd) =>
     /\ ~rcw.spawned
     /\ pc = "exited" => exit.reason \in {"KeyboardInterrupt", "killed by signal"}

\* the process was ended by a signal it had no handler for
EndedBySignal ==
  pc = "exited" /\ exit.reason \in {"KeyboardInterrupt", "killed by signal"}

\* the last phase entered, "" before the first
LastPhase == IF phase = <<>> THEN "" ELSE phase[Len(phase)]

\* C20: a call of run_cmd_and_wait, in STOPPING as elsewhere, ends by
\* returning: the supervisor never ends inside a call unless a signal without
\* a handler ends it, and STOPPING is left only for DONE or FAILED, never for
\* MONITORING.
C20_BoundedShutdown ==
  /\ (pc = "exited" /\ rcw # NoRcw) => EndedBySignal
  /\ \A i \in DOMAIN phase :
        (phase[i] = "STOPPING" /\ i < Len(phase)) =>
           (i + 1 = Len(phase) /\ phase[i + 1] \in {"DONE", "FAILED"})

====
